---- MODULE Spec2Model ----
(***************************************************************************)
(* A model of go-charts' coordinate box (draw.go: Draw, NewDraw, Top, the  *)
(* primitive passthroughs) and of the bar chart layout and renderer        *)
(* (barChart.render).                                                      *)
(*                                                                         *)
(* Four specifications share the module:                                   *)
(*   SpecBar     one barChart.render call, from its inputs to its return   *)
(*   SpecLayout  the layout prefix of render over a wide range of widths   *)
(*   SpecDraw    NewDraw building a tree of boxes, then one primitive      *)
(*   SpecTop     Draw.Top walking a (possibly malformed) parent chain      *)
(***************************************************************************)
EXTENDS Integers, Sequences, FiniteSets, TLC

VARIABLES
    \* barChart.render
    pc,                 \* position inside render
    opt,                \* the inputs of the call
    lay,                \* width, margin, barMargin, barWidth
    index,              \* the series loop's index
    calls,              \* draw calls that reached the surface, in order
    labelRenderOptions, \* deferred label requests
    markPointOptions,   \* what markPointPainter.Add received
    markLineOptions,    \* what markLinePainter.Add received
    divideReads,        \* indexes of divideValues that were read
    overlayFails,       \* which overlay painters' Render failed in this call
    result,             \* what render returned
    \* Draw
    draws,              \* the Draw objects, by id 1..Len(draws)
    renderers,          \* the renderers created so far (their kind and size)
    surface,            \* calls received by the renderers, in order
    last,               \* the most recent NewDraw / primitive call and its outcome
    \* Draw.Top
    top                 \* the locals of one Top call

barVars  == <<pc, opt, lay, index, calls, labelRenderOptions, markPointOptions,
              markLineOptions, divideReads, overlayFails, result>>
drawVars == <<renderers, surface, last>>
vars     == <<pc, opt, lay, index, calls, labelRenderOptions, markPointOptions,
              markLineOptions, divideReads, overlayFails, result, draws, renderers, surface,
              last, top>>

----------------------------------------------------------------------------
(* Helpers *)

SeqsUpTo(S, n) == UNION {[1..k -> S] : k \in 0..n}

Min(a, b) == IF a < b THEN a ELSE b

\* Go's integer division truncates toward zero (b # 0).
GoDiv(a, b) ==
    IF b = 0 THEN 0
    ELSE IF (a >= 0) = (b > 0)
         THEN (IF a >= 0 THEN a ELSE -a) \div (IF b > 0 THEN b ELSE -b)
         ELSE -((IF a >= 0 THEN a ELSE -a) \div (IF b > 0 THEN b ELSE -b))

\* Go's x>>1 on a signed int: arithmetic shift, rounding toward minus infinity.
ShiftRight1(a) == a \div 2

NoError == "nil"

BoxZero == [Top |-> 0, Left |-> 0, Right |-> 0, Bottom |-> 0]

----------------------------------------------------------------------------
(* barChart.render: inputs *)

MaxSeries     == 2
MaxData       == 2
MaxCategories == 1
MaxLayoutSeries == 5
MaxLayoutWidth  == 130

ItemValues    == {5, 25}
PainterWidths == {0, 40, 120}
PainterHeight == 40
YAxisRange    == [min |-> 0, max |-> 20]
PainterBox    == [Top |-> 0, Left |-> 0, Right |-> 600, Bottom |-> 400]

SeriesSet == [Data : SeqsUpTo(ItemValues, MaxData), Show : BOOLEAN, Distance : {0}]

----------------------------------------------------------------------------
(* Axis Range Divider and Value Scaler *)

\* int(x1 - x0) of xRange.GetRange(0): the pixel span of division 0.
SlotWidth(size, divideCount) ==
    IF divideCount = 0 THEN 0 ELSE size \div divideCount

\* xRange.AutoDivide(): divideCount+1 evenly spaced boundaries, 1-indexed here.
AutoDivide(size, divideCount) ==
    [k \in 1..(divideCount + 1) |->
        IF divideCount = 0 THEN 0 ELSE (size * (k - 1)) \div divideCount]

\* int(yRange.getHeight(value)), clamped to [0, pixelHeight].
GetHeight(value, pixelHeight) ==
    LET raw == GoDiv((value - YAxisRange.min) * pixelHeight,
                     YAxisRange.max - YAxisRange.min)
    IN  IF raw < 0 THEN 0 ELSE IF raw > pixelHeight THEN pixelHeight ELSE raw

\* seriesPainter.MeasureText(text).Width(): a fixed-pitch font, text = the value.
MeasureTextWidth(text) == IF text < 10 THEN 7 ELSE 14

----------------------------------------------------------------------------
(* barChart.render: layout (lines 77-96) *)

Margin(width) == IF width < 20 THEN 2 ELSE IF width < 50 THEN 5 ELSE 10

BarMargin(width) == IF width < 20 THEN 2 ELSE IF width < 50 THEN 3 ELSE 5

BarWidthNoGap(width, margin, barMargin, seriesCount) ==
    GoDiv(width - 2 * margin, seriesCount)

BarWidth(width, margin, barMargin, seriesCount) ==
    GoDiv(width - 2 * margin - barMargin * (seriesCount - 1), seriesCount)

\* The division by len(seriesList) panics on an empty series list.
DividePanics(divisor) == divisor = 0

Layout(o) ==
    LET width == SlotWidth(o.width, o.categories)
        n     == Len(o.seriesList)
    IN  [width     |-> width,
         margin    |-> Margin(width),
         barMargin |-> BarMargin(width),
         barWidth  |-> BarWidth(width, Margin(width), BarMargin(width), n)]

LayoutUnset == [width |-> 0, margin |-> 0, barMargin |-> 0, barWidth |-> 0]

renderLayout ==
    /\ pc = "layout"
    /\ IF DividePanics(Len(opt.seriesList))
       THEN /\ pc' = "panic"
            /\ UNCHANGED lay
       ELSE /\ pc' = "series"
            /\ lay' = Layout(opt)
    /\ UNCHANGED <<opt, index, calls, labelRenderOptions, markPointOptions,
                   markLineOptions, divideReads, overlayFails, result>>
    /\ UNCHANGED <<draws, renderers, surface, last, top>>

----------------------------------------------------------------------------
(* barChart.render: the series loop (lines 108-194) *)

SkipItemOffByOne(j, divideCount) == j > divideCount

\* if j >= xRange.divideCount { continue }
SkipItem(j, divideCount) == j >= divideCount

DefaultDistance == 5

\* One data item, Go index j, of series idx; acc collects the iteration's effects.
ItemStep(o, l, idx, series, j, acc) ==
    IF SkipItem(j, o.categories) THEN acc
    ELSE
      LET value        == series.Data[j + 1]
          barMaxHeight == o.height
          x == AutoDivide(o.width, o.categories)[j + 1] + l.margin
               + (IF idx # 0 THEN idx * (l.barWidth + l.barMargin) ELSE 0)
          h        == GetHeight(value, o.height)
          topY     == barMaxHeight - h
          distance == IF series.Distance = 0 THEN DefaultDistance
                      ELSE series.Distance
          rect  == [op |-> "Rect",
                    box |-> [Top |-> topY, Left |-> x, Right |-> x + l.barWidth,
                             Bottom |-> barMaxHeight - 1]]
          point == [X |-> x + ShiftRight1(l.barWidth), Y |-> topY]
          label == [Text |-> value,
                    X |-> x + ShiftRight1(l.barWidth - MeasureTextWidth(value)),
                    Y |-> barMaxHeight - h - distance]
      IN  [rects  |-> Append(acc.rects, rect),
           points |-> [acc.points EXCEPT ![j + 1] = point],
           labels |-> IF series.Show THEN Append(acc.labels, label)
                      ELSE acc.labels,
           reads  |-> acc.reads \cup {j}]

RECURSIVE SeriesItems(_, _, _, _, _, _)
SeriesItems(o, l, idx, series, j, acc) ==
    IF j >= Len(series.Data) THEN acc
    ELSE SeriesItems(o, l, idx, series, j + 1, ItemStep(o, l, idx, series, j, acc))

PointZero == [X |-> 0, Y |-> 0]

ProcessSeries(o, l, idx) ==
    LET series == o.seriesList[idx + 1]
    IN  SeriesItems(o, l, idx, series, 0,
                    [rects  |-> << >>,
                     points |-> [k \in 1..Len(series.Data) |-> PointZero],
                     labels |-> << >>,
                     reads  |-> {}])

TextCall(labelOpt) ==
    [op |-> "Text", text |-> labelOpt.Text, x |-> labelOpt.X, y |-> labelOpt.Y]

TextCalls(labels) == [k \in 1..Len(labels) |-> TextCall(labels[k])]

SeriesDrawsInline(acc) == acc.rects \o TextCalls(acc.labels)

\* What one iteration of the series loop draws: its rectangles only.
SeriesDraws(acc) == acc.rects

renderSeries ==
    /\ pc = "series"
    /\ index < Len(opt.seriesList)
    /\ LET acc == ProcessSeries(opt, lay, index)
       IN  /\ calls' = calls \o SeriesDraws(acc)
           /\ labelRenderOptions' = labelRenderOptions \o acc.labels
           /\ divideReads' = divideReads \cup acc.reads
           /\ markPointOptions' =
                Append(markPointOptions, [Series |-> index, Points |-> acc.points])
           /\ markLineOptions' = Append(markLineOptions, [Series |-> index])
    /\ index' = index + 1
    /\ UNCHANGED <<pc, opt, lay, overlayFails, result>>
    /\ UNCHANGED <<draws, renderers, surface, last, top>>

----------------------------------------------------------------------------
(* barChart.render: label flush, overlays, return (lines 195-205) *)

renderLabels ==
    /\ pc = "series"
    /\ index >= Len(opt.seriesList)
    /\ calls' = calls \o TextCalls(labelRenderOptions)
    /\ pc' = "overlay"
    /\ UNCHANGED <<opt, lay, index, labelRenderOptions, markPointOptions,
                   markLineOptions, divideReads, overlayFails, result>>
    /\ UNCHANGED <<draws, renderers, surface, last, top>>

rendererList == <<"MarkPointRender", "MarkLineRender">>

\* doRender(renderers...): each painter's Render in turn, stopping at the first
\* error; fails[k] says whether the k-th painter's Render fails.
RECURSIVE doRender(_, _, _)
doRender(list, fails, k) ==
    IF k > Len(list) THEN [invoked |-> << >>, err |-> NoError]
    ELSE IF fails[k]
         THEN [invoked |-> <<[op |-> list[k]]>>, err |-> list[k]]
         ELSE LET rest == doRender(list, fails, k + 1)
              IN  [invoked |-> <<[op |-> list[k]]>> \o rest.invoked,
                   err |-> rest.err]

RenderReturnIgnoringError(err) ==
    [returned |-> TRUE, box |-> PainterBox, err |-> NoError]

\* err := doRender(...); if err != nil { return BoxZero, err }; return p.box, nil
RenderReturn(err) ==
    IF err # NoError
    THEN [returned |-> TRUE, box |-> BoxZero, err |-> err]
    ELSE [returned |-> TRUE, box |-> PainterBox, err |-> NoError]

ResultUnset == [returned |-> FALSE, box |-> BoxZero, err |-> NoError]

renderOverlays ==
    /\ pc = "overlay"
    /\ \E fails \in [1..Len(rendererList) -> BOOLEAN] :
         LET r == doRender(rendererList, fails, 1)
         IN  /\ calls' = calls \o r.invoked
             /\ result' = RenderReturn(r.err)
             /\ overlayFails' = fails
    /\ pc' = "done"
    /\ UNCHANGED <<opt, lay, index, labelRenderOptions, markPointOptions,
                   markLineOptions, divideReads>>
    /\ UNCHANGED <<draws, renderers, surface, last, top>>

----------------------------------------------------------------------------
(* Draw: inputs *)

MaxDraws  == 2
MaxOpts   == 1
MaxPoints == 2
MaxChain  == 3

NilDraw == 0

Dims        == {-1, 0, 4}
Types       == {"svg", "png"}
Paddings    == {[Top |-> 2, Left |-> 1, Right |-> 1, Bottom |-> 1]}
DrawPoints  == {[X |-> 0, Y |-> 0], [X |-> 3, Y |-> 1]}
LineStyles  == [StrokeWidth : {0, 1}, StrokeColor : {"transparent", "black"}]

\* An Option is a func(*Draw) error: PaddingOption(padding), or one that fails.
OptionSet ==
    {[kind |-> "padding", padding |-> p] : p \in Paddings}
      \cup {[kind |-> "error", padding |-> BoxZero]}

----------------------------------------------------------------------------
(* NewDraw (draw.go lines 57-106) *)

\* The closure PaddingOption returns, applied to d.Box.
PaddingOption(box, padding) ==
    [Left   |-> box.Left + padding.Left,
     Top    |-> box.Top + padding.Top,
     Right  |-> box.Right - padding.Right,
     Bottom |-> box.Bottom - padding.Bottom]

\* for _, o := range opts: stops at the first option that returns an error.
RECURSIVE ApplyOptions(_, _, _)
ApplyOptions(box, opts, k) ==
    IF k > Len(opts) THEN [Box |-> box, err |-> NoError, applied |-> k - 1]
    ELSE IF opts[k].kind = "error"
         THEN [Box |-> box, err |-> "option", applied |-> k]
         ELSE ApplyOptions(PaddingOption(box, opts[k].padding), opts, k + 1)

ConfigInvalidBothMissing(o) ==
    o.Parent = NilDraw /\ (o.Width <= 0 /\ o.Height <= 0)

\* if opt.Parent == nil && (opt.Width <= 0 || opt.Height <= 0)
ConfigInvalid(o) ==
    o.Parent = NilDraw /\ (o.Width <= 0 \/ o.Height <= 0)

CreatedBoxAbsolute(heap, o) ==
    LET base == IF o.Parent # NilDraw THEN heap[o.Parent].Box ELSE BoxZero
    IN  IF o.Width # 0 /\ o.Height # 0
        THEN [base EXCEPT !.Right = o.Width, !.Bottom = o.Height]
        ELSE base

\* d.Box once width and height are taken into account (lines 75-85).
CreatedBox(heap, o) ==
    LET base == IF o.Parent # NilDraw THEN heap[o.Parent].Box ELSE BoxZero
    IN  IF o.Width # 0 /\ o.Height # 0
        THEN [base EXCEPT !.Right = o.Width + base.Left,
                          !.Bottom = o.Height + base.Top]
        ELSE base

NewDrawRecord(o, opts, d, err, base, applied) ==
    [op |-> "NewDraw", opt |-> o, opts |-> opts, d |-> d, err |-> err,
     base |-> base, applied |-> applied,
     renderersBefore |-> Len(renderers), drawsBefore |-> Len(draws),
     parentBox |-> IF o.Parent # NilDraw THEN draws[o.Parent].Box ELSE BoxZero]

\* A caller stops building and drawing at the first construction error, and the
\* model follows one primitive call per run.
Building == last.op = "none" \/ (last.op = "NewDraw" /\ last.err = NoError)

NewDraw ==
    /\ Building
    /\ Len(draws) < MaxDraws
    /\ \E o \in [Type : Types, Parent : 0..Len(draws), Width : Dims, Height : Dims],
          opts \in SeqsUpTo(OptionSet, MaxOpts) :
        IF ConfigInvalid(o)
        THEN /\ last' = NewDrawRecord(o, opts, NilDraw,
                                      "parent and width/height can not be nil",
                                      BoxZero, 0)
             /\ UNCHANGED <<draws, renderers>>
        ELSE
          LET box == CreatedBox(draws, o)
          IN  \E fnFails \in (IF o.Parent = NilDraw THEN BOOLEAN ELSE {FALSE}) :
                IF fnFails
                THEN /\ last' = NewDrawRecord(o, opts, NilDraw, "renderer", box, 0)
                     /\ UNCHANGED <<draws, renderers>>
                ELSE
                  LET rs == IF o.Parent = NilDraw
                            THEN Append(renderers,
                                        [kind |-> o.Type, width |-> box.Right,
                                         height |-> box.Bottom])
                            ELSE renderers
                      render == IF o.Parent = NilDraw THEN Len(rs)
                                ELSE draws[o.Parent].Render
                      ap == ApplyOptions(box, opts, 1)
                  IN  /\ renderers' = rs
                      /\ IF ap.err # NoError
                         THEN /\ last' = NewDrawRecord(o, opts, NilDraw, ap.err,
                                                       box, ap.applied)
                              /\ UNCHANGED draws
                         ELSE /\ draws' = Append(draws,
                                     [Box |-> ap.Box, parent |-> o.Parent,
                                      Render |-> render])
                              /\ last' = NewDrawRecord(o, opts, Len(draws) + 1,
                                                       NoError, box, ap.applied)
    /\ UNCHANGED surface
    /\ UNCHANGED <<barVars, top>>

----------------------------------------------------------------------------
(* Primitive passthroughs (draw.go lines 136-183) *)

\* One call on renderer r.
RenderCall(r, kind, x, y, arg) ==
    [r |-> r, op |-> kind, x |-> x, y |-> y, arg |-> arg]

\* d.Render.<kind>(x+d.Box.Left, y+d.Box.Top)
Translated(d, kind, x, y, arg) ==
    RenderCall(draws[d].Render, kind, x + draws[d].Box.Left,
               y + draws[d].Box.Top, arg)

PrimitiveRecord(kind, d, args) ==
    [op |-> kind, d |-> d, args |-> args, from |-> Len(surface)]

Primitive(kind, d, args, issued) ==
    /\ Building
    /\ surface' = surface \o issued
    /\ last' = PrimitiveRecord(kind, d, args)
    /\ UNCHANGED <<draws, renderers>>
    /\ UNCHANGED <<barVars, top>>

moveTo ==
    \E d \in 1..Len(draws), p \in DrawPoints :
        Primitive("moveTo", d, <<p>>, <<Translated(d, "MoveTo", p.X, p.Y, 0)>>)

lineTo ==
    \E d \in 1..Len(draws), p \in DrawPoints :
        Primitive("lineTo", d, <<p>>, <<Translated(d, "LineTo", p.X, p.Y, 0)>>)

circle ==
    \E d \in 1..Len(draws), p \in DrawPoints, radius \in {2} :
        Primitive("circle", d, <<p>>,
                  <<Translated(d, "Circle", p.X, p.Y, radius)>>)

text ==
    \E d \in 1..Len(draws), p \in DrawPoints, body \in {"label"} :
        Primitive("text", d, <<p>>, <<Translated(d, "Text", p.X, p.Y, body)>>)

\* Style.ShouldDrawStroke(): a stroke is visible when it has a width and a colour.
ShouldDrawStroke(style) ==
    style.StrokeWidth > 0 /\ style.StrokeColor # "transparent"

\* The moveTo / lineTo calls of lineStroke's loop over the points.
StrokePath(d, points) ==
    [k \in 1..Len(points) |->
        IF k = 1 THEN Translated(d, "MoveTo", points[k].X, points[k].Y, 0)
        ELSE Translated(d, "LineTo", points[k].X, points[k].Y, 0)]

LineStrokeCallsUnguarded(d, points, style) ==
    <<RenderCall(draws[d].Render, "SetStrokeOptions", 0, 0, style)>>
      \o StrokePath(d, points)
      \o <<RenderCall(draws[d].Render, "Stroke", 0, 0, 0)>>

\* What lineStroke sends to the renderer.
LineStrokeCalls(d, points, style) ==
    IF ~ShouldDrawStroke(style) THEN << >>
    ELSE <<RenderCall(draws[d].Render, "SetStrokeOptions", 0, 0, style)>>
           \o StrokePath(d, points)
           \o <<RenderCall(draws[d].Render, "Stroke", 0, 0, 0)>>

lineStroke ==
    \E d \in 1..Len(draws), points \in SeqsUpTo(DrawPoints, MaxPoints),
       style \in LineStyles :
        Primitive("lineStroke", d, [points |-> points, style |-> style],
                  LineStrokeCalls(d, points, style))

\* What setBackground sends to the renderer: the corners are not offset.
SetBackgroundCalls(d, width, height) ==
    LET r == draws[d].Render
    IN  <<RenderCall(r, "SetStyle", 0, 0, "fill"),
          RenderCall(r, "MoveTo", 0, 0, 0),
          RenderCall(r, "LineTo", width, 0, 0),
          RenderCall(r, "LineTo", width, height, 0),
          RenderCall(r, "LineTo", 0, height, 0),
          RenderCall(r, "LineTo", 0, 0, 0),
          RenderCall(r, "FillStroke", 0, 0, 0)>>

setBackground ==
    \E d \in 1..Len(draws), size \in DrawPoints :
        Primitive("setBackground", d, [width |-> size.X + 1, height |-> size.Y + 1],
                  SetBackgroundCalls(d, size.X + 1, size.Y + 1))

----------------------------------------------------------------------------
(* Draw.Top (draw.go lines 112-125) *)

TopCap == 50

TopLoopCondUncapped(i) == TRUE

\* the loop condition of "for i := 50; i > 0; i--"
TopLoopCond(i) == i > 0

TopCall ==
    /\ top.pc = "idle"
    /\ \E d \in 1..Len(draws) :
         IF draws[d].parent = NilDraw
         THEN top' = [pc |-> "done", d |-> d, t |-> NilDraw, i |-> 0, hops |-> 0,
                      result |-> NilDraw]
         ELSE top' = [pc |-> "loop", d |-> d, t |-> draws[d].parent, i |-> TopCap,
                      hops |-> 0, result |-> NilDraw]
    /\ UNCHANGED <<barVars, draws, renderers, surface, last>>

TopLoop ==
    /\ top.pc = "loop"
    /\ IF TopLoopCond(top.i)
       THEN IF draws[top.t].parent = NilDraw
            THEN top' = [top EXCEPT !.pc = "return"]
            ELSE top' = [top EXCEPT !.t = draws[top.t].parent, !.i = top.i - 1,
                                    !.hops = top.hops + 1]
       ELSE top' = [top EXCEPT !.pc = "return"]
    /\ UNCHANGED <<barVars, draws, renderers, surface, last>>

TopReturn ==
    /\ top.pc = "return"
    /\ top' = [top EXCEPT !.pc = "done", !.result = top.t]
    /\ UNCHANGED <<barVars, draws, renderers, surface, last>>

----------------------------------------------------------------------------
(* Idle values of the state a specification does not use *)

LastNone == [op |-> "none"]
TopIdle  == [pc |-> "idle", d |-> 0, t |-> 0, i |-> 0, hops |-> 0, result |-> 0]

DrawIdle ==
    /\ draws = << >>
    /\ renderers = << >>
    /\ surface = << >>
    /\ last = LastNone
    /\ top = TopIdle

BarStart ==
    /\ pc = "layout"
    /\ lay = LayoutUnset
    /\ index = 0
    /\ calls = << >>
    /\ labelRenderOptions = << >>
    /\ markPointOptions = << >>
    /\ markLineOptions = << >>
    /\ divideReads = {}
    /\ overlayFails = << >>
    /\ result = ResultUnset

InitBar ==
    /\ opt \in [categories : 0..MaxCategories,
                width      : PainterWidths,
                height     : {PainterHeight},
                seriesList : SeqsUpTo(SeriesSet, MaxSeries)]
    /\ BarStart
    /\ DrawIdle

NextBar == renderLayout \/ renderSeries \/ renderLabels \/ renderOverlays

SpecBar == InitBar /\ [][NextBar]_vars

InitLayout ==
    /\ opt \in [categories : 0..(MaxCategories + 1),
                width      : 0..MaxLayoutWidth,
                height     : {PainterHeight},
                seriesList : {[k \in 1..n |-> [Data |-> << >>, Show |-> FALSE,
                                               Distance |-> 0]] :
                              n \in 0..MaxLayoutSeries}]
    /\ BarStart
    /\ DrawIdle

SpecLayout == InitLayout /\ [][renderLayout]_vars

BarIdle ==
    /\ opt = [categories |-> 0, width |-> 0, height |-> 0, seriesList |-> << >>]
    /\ pc = "idle"
    /\ lay = LayoutUnset
    /\ index = 0
    /\ calls = << >>
    /\ labelRenderOptions = << >>
    /\ markPointOptions = << >>
    /\ markLineOptions = << >>
    /\ divideReads = {}
    /\ overlayFails = << >>
    /\ result = ResultUnset

InitDraw ==
    /\ BarIdle
    /\ DrawIdle

NextDraw ==
    \/ NewDraw
    \/ moveTo
    \/ lineTo
    \/ circle
    \/ text
    \/ lineStroke
    \/ setBackground

SpecDraw == InitDraw /\ [][NextDraw]_vars

\* Top is called on a chain of boxes whose parent links may be malformed.
InitTop ==
    /\ BarIdle
    /\ draws \in [1..MaxChain -> [Box : {BoxZero}, parent : 0..MaxChain,
                                  Render : {1}]]
    /\ renderers = <<[kind |-> "svg", width |-> 0, height |-> 0]>>
    /\ surface = << >>
    /\ last = LastNone
    /\ top = TopIdle

NextTop == TopCall \/ TopLoop \/ TopReturn

SpecTop == InitTop /\ [][NextTop]_vars

SpecTopFair == SpecTop /\ WF_vars(NextTop)

----------------------------------------------------------------------------
(* Properties of barChart.render *)

Count(seq, kind) == Cardinality({k \in 1..Len(seq) : seq[k].op = kind})

Rank(c) == IF c.op = "Rect" THEN 0 ELSE IF c.op = "Text" THEN 1 ELSE 2

IsOverlayCall(c) == c.op = "MarkPointRender" \/ c.op = "MarkLineRender"

\* Rectangles series k (1-based) draws: one per data item that has a category.
DrawnItems(k) == Min(Len(opt.seriesList[k].Data), opt.categories)

RECURSIVE SumDrawn(_)
SumDrawn(k) == IF k = 0 THEN 0 ELSE SumDrawn(k - 1) + DrawnItems(k)

\* C1: in one render call the draw calls reach the surface in the order
\* rectangles, then label texts, then overlay renders: no call is followed by a
\* call of an earlier phase, a label text is drawn only once every series has
\* drawn its rectangles, and an overlay is rendered only once every deferred
\* label has been drawn.
C1_DrawOrder ==
    /\ \A i, j \in 1..Len(calls) : i < j => Rank(calls[i]) <= Rank(calls[j])
    /\ (\E i \in 1..Len(calls) : Rank(calls[i]) >= 1) =>
          /\ index = Len(opt.seriesList)
          /\ Count(calls, "Rect") = SumDrawn(Len(opt.seriesList))
    /\ (\E i \in 1..Len(calls) : IsOverlayCall(calls[i])) =>
          Count(calls, "Text") = Len(labelRenderOptions)

C1_Witness ==
    /\ pc = "done"
    /\ Len(opt.seriesList) = 2
    /\ opt.seriesList[1].Show
    /\ opt.categories >= 1
    /\ Len(opt.seriesList[1].Data) >= 1
    /\ Len(opt.seriesList[2].Data) >= 1
    /\ Count(calls, "Rect") >= 2
    /\ Count(calls, "Text") >= 1
    /\ calls[Len(calls)].op = "MarkLineRender"

\* C2: the layout cannot fail: for every input, an empty series list included,
\* render does not crash, and an error it returns is one an overlay painter
\* returned.
C2_LayoutCannotFail ==
    /\ pc # "panic"
    /\ (result.returned /\ result.err # NoError) =>
          \E k \in 1..Len(rendererList) :
              overlayFails[k] /\ result.err = rendererList[k]

\* C6: for n >= 1 series and every slot width, the bars of all series fit in one
\* category slot whenever barWidth > 0:
\* barWidth*n + barMargin*(n-1) + 2*margin <= width.
C6_BarsFitSlot ==
    (pc = "series" /\ Len(opt.seriesList) >= 1 /\ lay.barWidth > 0) =>
        lay.barWidth * Len(opt.seriesList)
          + lay.barMargin * (Len(opt.seriesList) - 1)
          + 2 * lay.margin <= lay.width

C6_Witness ==
    /\ pc = "series"
    /\ Len(opt.seriesList) = 3
    /\ lay.width >= 50
    /\ lay.barWidth > 0
    /\ lay.barWidth * 3 + lay.barMargin * 2 + 2 * lay.margin < lay.width

\* C8: when the render of an overlay painter fails, render returns that error
\* with the zero box; when both succeed it returns the painter's box and no
\* error.
C8_OverlayErrorReturned ==
    pc = "done" =>
        /\ result.returned
        /\ \A k \in 1..Len(rendererList) :
             (overlayFails[k] /\ \A m \in 1..(k - 1) : ~overlayFails[m]) =>
                 /\ result.err = rendererList[k]
                 /\ result.err # NoError
                 /\ result.box = BoxZero
        /\ (\A k \in 1..Len(rendererList) : ~overlayFails[k]) =>
                 /\ result.err = NoError
                 /\ result.box = PainterBox

C8_Witness ==
    /\ pc = "done"
    /\ ~overlayFails[1]
    /\ overlayFails[2]
    /\ result.err = "MarkLineRender"
    /\ Count(calls, "Rect") >= 1

\* C10: data items at an index at or beyond the category count are skipped:
\* after k series the surface holds the sum of min(len(data), categoryCount)
\* rectangles, at most as many labels are queued, no division boundary at an
\* index >= categoryCount was read, and the points of the skipped items handed
\* to the mark point painter are zero.
C10_ItemsBeyondCategoriesSkipped ==
    pc \in {"series", "overlay", "done"} =>
        /\ Count(calls, "Rect") = SumDrawn(index)
        /\ Len(labelRenderOptions) <= SumDrawn(index)
        /\ \A j \in divideReads : j < opt.categories
        /\ Len(markPointOptions) = index
        /\ \A k \in 1..Len(markPointOptions) :
             /\ Len(markPointOptions[k].Points) = Len(opt.seriesList[k].Data)
             /\ \A j \in 1..Len(markPointOptions[k].Points) :
                  (j - 1) >= opt.categories =>
                      markPointOptions[k].Points[j] = PointZero

C10_Witness ==
    /\ pc = "done"
    /\ opt.categories >= 1
    /\ \E k \in 1..Len(opt.seriesList) :
         /\ Len(opt.seriesList[k].Data) > opt.categories
         /\ opt.seriesList[k].Show
         /\ markPointOptions[k].Points[1] # PointZero
         /\ markPointOptions[k].Points[Len(opt.seriesList[k].Data)] = PointZero

----------------------------------------------------------------------------
(* Properties of Draw *)

\* The calls the last primitive sent to the renderers.
Issued == SubSeq(surface, last.from + 1, Len(surface))

CoordinateOps == {"MoveTo", "LineTo", "Circle", "Text"}

RECURSIVE Select(_, _)
Select(seq, kinds) ==
    IF seq = << >> THEN << >>
    ELSE IF Head(seq).op \in kinds
         THEN <<Head(seq)>> \o Select(Tail(seq), kinds)
         ELSE Select(Tail(seq), kinds)

\* C3: a Box created by NewDraw from a parent with a given (non-zero) width W
\* and height H has, as created, the bounds [parent.left, parent.top,
\* parent.left+W, parent.top+H]; it is the returned box's bounds when no
\* option is passed; the parent's bounds are unchanged.
C3_CarvedFromParent ==
    (/\ last.op = "NewDraw"
     /\ last.opt.Parent # NilDraw
     /\ last.opt.Width # 0
     /\ last.opt.Height # 0) =>
        LET carved == [Left   |-> last.parentBox.Left,
                       Top    |-> last.parentBox.Top,
                       Right  |-> last.parentBox.Left + last.opt.Width,
                       Bottom |-> last.parentBox.Top + last.opt.Height]
        IN  /\ last.base = carved
            /\ (last.opts = << >>) =>
                  /\ last.err = NoError
                  /\ draws[last.d].Box = carved
                  /\ draws[last.d].parent = last.opt.Parent
            /\ draws[last.opt.Parent].Box = last.parentBox

C3_Witness ==
    /\ last.op = "NewDraw"
    /\ last.opt.Parent # NilDraw
    /\ last.opt.Width = 4
    /\ last.opt.Height = -1
    /\ last.opts = << >>
    /\ last.err = NoError
    /\ last.parentBox.Left # 0
    /\ last.parentBox.Top # 0
    /\ draws[last.d].Box.Right = last.parentBox.Left + 4
    /\ draws[last.d].Box # last.parentBox

\* C7: NewDraw with no parent and without both a positive width and a positive
\* height returns the configuration error at once: no Draw is returned or kept,
\* no renderer is created, no option is applied and nothing is drawn.
C7_ConfigErrorFirst ==
    (/\ last.op = "NewDraw"
     /\ last.opt.Parent = NilDraw
     /\ (last.opt.Width <= 0 \/ last.opt.Height <= 0)) =>
        /\ last.err = "parent and width/height can not be nil"
        /\ last.d = NilDraw
        /\ Len(draws) = last.drawsBefore
        /\ Len(renderers) = last.renderersBefore
        /\ last.applied = 0
        /\ surface = << >>

C7_Witness ==
    /\ last.op = "NewDraw"
    /\ last.opt.Parent = NilDraw
    /\ last.opt.Width = 4
    /\ last.opt.Height = 0
    /\ Len(last.opts) >= 1
    /\ last.err = "parent and width/height can not be nil"
    /\ renderers = << >>

\* The local coordinates a primitive call was given, in the order it issues them.
LocalCoordinates ==
    IF last.op \in {"moveTo", "lineTo", "circle", "text"} THEN last.args
    ELSE IF last.op = "lineStroke"
         THEN (IF last.args.style.StrokeWidth > 0
                  /\ last.args.style.StrokeColor # "transparent"
               THEN last.args.points ELSE << >>)
    ELSE IF last.op = "setBackground"
         THEN <<[X |-> 0, Y |-> 0],
                [X |-> last.args.width, Y |-> 0],
                [X |-> last.args.width, Y |-> last.args.height],
                [X |-> 0, Y |-> last.args.height],
                [X |-> 0, Y |-> 0]>>
    ELSE << >>

TranslatedByBox(ops) ==
    LET sent == Select(Issued, CoordinateOps)
    IN  (last.op \in ops) =>
          /\ Len(sent) = Len(LocalCoordinates)
          /\ \A k \in 1..Len(sent) :
               /\ sent[k].x = LocalCoordinates[k].X + draws[last.d].Box.Left
               /\ sent[k].y = LocalCoordinates[k].Y + draws[last.d].Box.Top

\* C5: every primitive passthrough (moveTo, lineTo, circle, text, lineStroke,
\* setBackground) sends each local coordinate (x, y) to the renderer as
\* (x + box.left, y + box.top), the four corners of setBackground included.
C5_AllPrimitivesTranslate ==
    TranslatedByBox({"moveTo", "lineTo", "circle", "text", "lineStroke",
                     "setBackground"})

\* The part of C5 the code keeps: the primitives other than setBackground.
PointPrimitivesTranslate ==
    TranslatedByBox({"moveTo", "lineTo", "circle", "text", "lineStroke"})

\* C9: lineStroke sends nothing to the renderer when the style's stroke is
\* disabled (zero width or transparent); otherwise its path calls are one
\* MoveTo for the first point, one LineTo for each later point, in order, and
\* then exactly one Stroke, which is the last call.
C9_LineStroke ==
    last.op = "lineStroke" =>
        LET points == last.args.points
            style  == last.args.style
            path   == Select(Issued, {"MoveTo", "LineTo", "Stroke"})
        IN  IF style.StrokeWidth = 0 \/ style.StrokeColor = "transparent"
            THEN Issued = << >> /\ surface = << >>
            ELSE /\ Len(path) = Len(points) + 1
                 /\ \A k \in 1..Len(points) :
                      /\ path[k].op = (IF k = 1 THEN "MoveTo" ELSE "LineTo")
                      /\ path[k].x = points[k].X + draws[last.d].Box.Left
                      /\ path[k].y = points[k].Y + draws[last.d].Box.Top
                 /\ path[Len(path)].op = "Stroke"
                 /\ Issued[Len(Issued)].op = "Stroke"
                 /\ \A k \in 1..Len(Issued) : Issued[k].r = draws[last.d].Render

C9_Witness ==
    /\ last.op = "lineStroke"
    /\ last.args.style.StrokeWidth = 0
    /\ last.args.style.StrokeColor = "black"
    /\ Len(last.args.points) = 2
    /\ surface = << >>

----------------------------------------------------------------------------
(* Properties of Draw.Top *)

\* The n-th ancestor of box d along the parent links (NilDraw past the root).
RECURSIVE Ancestor(_, _)
Ancestor(d, n) ==
    IF n = 0 THEN d
    ELSE IF Ancestor(d, n - 1) = NilDraw THEN NilDraw
         ELSE draws[Ancestor(d, n - 1)].parent

Cyclic(d) == \A n \in 1..(Len(draws) + 1) : Ancestor(d, n) # NilDraw

\* C4: Top walks the parent chain to the top: on a chain that ends (a chain of
\* depth 3 included) it returns the box with no parent; on any chain, cyclic
\* ones included, it makes at most 50 hops, the remaining budget shrinking by
\* one with each hop.
C4_TopBounded ==
    /\ top.hops <= 50
    /\ top.pc = "loop" => (top.i >= 0 /\ top.i + top.hops = 50)
    /\ top.pc = "done" =>
         /\ (Ancestor(top.d, 1) # NilDraw /\ Ancestor(top.d, 2) # NilDraw
               /\ Ancestor(top.d, 3) = NilDraw) =>
                 top.result = Ancestor(top.d, 2)
         /\ \A n \in 1..Len(draws) :
              (Ancestor(top.d, n) # NilDraw /\ Ancestor(top.d, n + 1) = NilDraw)
                 => top.result = Ancestor(top.d, n)
         /\ Cyclic(top.d) => (top.hops = 50 /\ top.result # NilDraw)

C4_Witness ==
    /\ top.pc = "done"
    /\ Cyclic(top.d)
    /\ top.hops = 50
    /\ Ancestor(top.d, 3) = top.d
    /\ Ancestor(top.d, 1) # top.d

\* Depth 3: d -> parent -> root, and Top(d) is the root.
C4_WitnessDepth3 ==
    /\ top.pc = "done"
    /\ Ancestor(top.d, 2) # NilDraw
    /\ Ancestor(top.d, 3) = NilDraw
    /\ top.result = Ancestor(top.d, 2)

\* Under weak fairness of the call's steps every Top call returns.
TopTerminates == (top.pc = "loop") ~> (top.pc = "done")

====
